---- MODULE Spec2Model ----
(***************************************************************************)
(* frodo: a URL shortener.  main.go wires three HTTP routes to three       *)
(* handlers (redirectHandler, createHandler, deleteHandler) over a KV      *)
(* adapter (Exists, Get, Set, Delete) on an embedded badger store, and a   *)
(* code generator (GenerateRandomString).                                  *)
(*                                                                         *)
(* Strings that the code inspects character by character (short codes,     *)
(* the expiry form field, SHORT_CODE_LENGTH) are sequences of one-char     *)
(* strings; urls and API keys are only compared, and are TLA+ strings.     *)
(*                                                                         *)
(* Time is counted in ticks of Unix time; a minute is Minute ticks.         *)
(* Integers keep two's complement wrap-around at a reduced width: a        *)
(* time.Duration counts nanoseconds in 64 bits, which is 2^64 / (6*10^10)  *)
(* minutes, so in ticks its modulus (2^DurBits) is smaller than the        *)
(* modulus (2^IntBits) of a 64-bit count of seconds or of minutes.         *)
(***************************************************************************)
EXTENDS Integers, Sequences, FiniteSets, TLC

(***************************************************************************)
(* Bounds and scales                                                       *)
(***************************************************************************)
\* ticks in one time.Minute
Minute == 1
\* width of a time.Duration, in ticks
DurBits == 3
\* width of int / uint64 counts of minutes and of seconds
IntBits == 6
\* Unix time, in ticks, when the process starts
Now0 == 1
\* the clock stops advancing here
MaxClock == 5
\* request slots: requests handled concurrently
MaxInFlight == 2
\* longest string GenerateRandomString is asked for in SpecGen
MaxGenLen == 3

DurMod == 2 ^ DurBits
IntMod == 2 ^ IntBits
MaxInt == (IntMod \div 2) - 1
MinInt == 0 - (IntMod \div 2)

(***************************************************************************)
(* Characters and strconv.Atoi                                             *)
(***************************************************************************)
letters ==
  << "0","1","2","3","4","5","6","7","8","9",
     "A","B","C","D","E","F","G","H","I","J","K","L","M",
     "N","O","P","Q","R","S","T","U","V","W","X","Y","Z",
     "a","b","c","d","e","f","g","h","i","j","k","l","m",
     "n","o","p","q","r","s","t","u","v","w","x","y","z" >>

DigitChars == { letters[i] : i \in 1..10 }

DigitVal(ch) == (CHOOSE i \in 1..10 : letters[i] = ch) - 1

RECURSIVE DigitsValue(_, _)
\* n = n*10 + int(ch) over the digits of s, starting from acc; saturates
\* above the int range so that Atoi can report the range error
DigitsValue(s, acc) ==
  IF s = << >> THEN acc
  ELSE LET n == acc * 10 + DigitVal(Head(s))
       IN  DigitsValue(Tail(s), IF n > MaxInt + 2 THEN MaxInt + 2 ELSE n)

\* strconv.Atoi: an optional sign, then one or more decimal digits, within
\* the range of int.  [ok |-> FALSE] is a non-nil error.
Atoi(s) ==
  LET signed == s # << >> /\ Head(s) \in {"+", "-"}
      digits == IF signed THEN Tail(s) ELSE s
      neg    == signed /\ Head(s) = "-"
  IN  IF digits = << >> \/ \E i \in 1..Len(digits) : digits[i] \notin DigitChars
        THEN [ok |-> FALSE, val |-> 0]
      ELSE LET mag == DigitsValue(digits, 0)
               n   == IF neg THEN 0 - mag ELSE mag
           IN  IF n > MaxInt \/ n < MinInt
                 THEN [ok |-> FALSE, val |-> 0]
               ELSE [ok |-> TRUE, val |-> n]

(***************************************************************************)
(* State                                                                   *)
(***************************************************************************)
VARIABLES
  shortCode,   \* main: the parsed SHORT_CODE_LENGTH, passed to createHandler
  apiKey,      \* main: os.Getenv("API_KEY")
  store,       \* the badger DB: key -> [value, expiresAt]; absent keys are not in DOMAIN
  now,         \* Unix time in ticks
  inflight,    \* per request slot: the handler's position between two transactions
  resp,        \* the HTTP response being sent, NoResponse when there is none
  crashed,     \* the process died of an unrecovered panic
  last,        \* history: per code, what the last 201 / 204 response promised
  gen,         \* the locals of one GenerateRandomString call (SpecGen)
  main,        \* main: where it stands (pc) and whether db.Close() has run (closed)
  call         \* the last call of a KV method or handler on its own (SpecKV)

vars == << shortCode, apiKey, store, now, inflight, resp, crashed, last, gen, main, call >>

(***************************************************************************)
(* GenerateRandomString                                                    *)
(***************************************************************************)
\* a draw of rand.Int(rand.Reader, 62) that returned an error
RandErr == 0 - 1

\* a zero byte of make([]byte, n)
NUL == "NUL"

\* the locals after `ret := make([]byte, n)`; make panics on a negative n
GenStart(n) ==
  IF n < 0
    THEN [pc |-> "panic", n |-> n, i |-> 0, ret |-> << >>, err |-> FALSE, samples |-> 0]
  ELSE [pc |-> "loop", n |-> n, i |-> 0, ret |-> [k \in 1..n |-> NUL],
        err |-> FALSE, samples |-> 0]

\* a faulty loop condition: the last byte is never drawn
GenLoopCondShort(g) == g.i < g.n - 1

\* the loop condition i < n
GenLoopCond(g) == g.i < g.n

\* one pass of `for i := 0; i < n; i++ { ... }` with the draw d, or the
\* return after the loop
GenIter(g, d) ==
  IF ~GenLoopCond(g)
    THEN [g EXCEPT !.pc = "done"]
  ELSE IF d = RandErr
    THEN [g EXCEPT !.pc = "done", !.ret = << >>, !.err = TRUE, !.samples = @ + 1]
  ELSE [g EXCEPT !.ret[g.i + 1] = letters[d + 1], !.i = @ + 1, !.samples = @ + 1]

RECURSIVE GenRun(_, _)
\* the whole call, drawing from the stream rnd
GenRun(g, rnd) ==
  IF g.pc # "loop" THEN g
  ELSE IF GenLoopCond(g) THEN GenRun(GenIter(g, Head(rnd)), Tail(rnd))
  ELSE GenIter(g, RandErr)

GenerateRandomString(n, rnd) == GenRun(GenStart(n), rnd)

(***************************************************************************)
(* The badger engine, as the adapter uses it                               *)
(***************************************************************************)
\* an engine failure other than a missing key (disk, closed DB, conflict)
EIO == "EIO"

\* badger: an item is invisible once its ExpiresAt has passed; 0 is no expiry
isDeletedOrExpired(expiresAt, t) == expiresAt # 0 /\ expiresAt <= t

\* txn.Get: the item, or ErrEmptyKey / ErrKeyNotFound
TxnGet(db, key, t) ==
  IF key = << >> THEN [err |-> "ErrEmptyKey", item |-> << >>]
  ELSE IF key \notin DOMAIN db \/ isDeletedOrExpired(db[key].expiresAt, t)
    THEN [err |-> "ErrKeyNotFound", item |-> << >>]
  ELSE [err |-> "nil", item |-> << db[key] >>]

\* a faulty write: the map is replaced by the one entry
PutAlone(db, key, e) == [k \in {key} |-> e]

\* a write of entry e under key: the map with that one key replaced
Put(db, key, e) == [k \in DOMAIN db \cup {key} |-> IF k = key THEN e ELSE db[k]]

\* a faulty write: a key that has a record keeps it
TxnSetEntryKeepsOld(db, key, e) ==
  IF key = << >> THEN [err |-> "ErrEmptyKey", db |-> db]
  ELSE [err |-> "nil", db |-> IF key \in DOMAIN db THEN db ELSE Put(db, key, e)]

\* txn.SetEntry and the commit of db.Update
TxnSetEntry(db, key, e) ==
  IF key = << >> THEN [err |-> "ErrEmptyKey", db |-> db]
  ELSE [err |-> "nil", db |-> Put(db, key, e)]

\* a faulty delete: it commits nothing
TxnDeleteNoOp(db, key) ==
  IF key = << >> THEN [err |-> "ErrEmptyKey", db |-> db]
  ELSE [err |-> "nil", db |-> db]

\* a faulty delete: a key without a record is an error
TxnDeleteStrict(db, key) ==
  IF key = << >> THEN [err |-> "ErrEmptyKey", db |-> db]
  ELSE IF key \notin DOMAIN db THEN [err |-> "ErrKeyNotFound", db |-> db]
  ELSE [err |-> "nil", db |-> [k \in DOMAIN db \ {key} |-> db[k]]]

\* txn.Delete and the commit of db.Update: the key is gone, present or not
TxnDelete(db, key) ==
  IF key = << >> THEN [err |-> "ErrEmptyKey", db |-> db]
  ELSE [err |-> "nil", db |-> [k \in DOMAIN db \ {key} |-> db[k]]]

\* an int64 product, wrapped to the width of a time.Duration
WrapDuration(x) ==
  LET m == x % DurMod IN IF m >= DurMod \div 2 THEN m - DurMod ELSE m

\* uint64(x) of a signed count of seconds
ToUint(x) == x % IntMod

\* Entry.WithTTL: ExpiresAt = uint64(time.Now().Add(dur).Unix())
WithTTL(t, dur) == ToUint(t + dur)

(***************************************************************************)
(* KV: the adapter (main.go, 157-214).  io is the engine failing.          *)
(***************************************************************************)
\* a faulty Exists: `exists` is set although the transaction failed
ExistsOkBeforeError(db, key, t, io) ==
  LET g   == TxnGet(db, key, t)
      err == IF io THEN EIO ELSE g.err
  IN  [exists |-> g.item # << >>, err |-> IF err = "ErrKeyNotFound" THEN "nil" ELSE err]

\* a faulty Exists: ErrKeyNotFound is passed on as an error
ExistsKeepsNotFound(db, key, t, io) ==
  LET g   == TxnGet(db, key, t)
      err == IF io THEN EIO ELSE g.err
  IN  [exists |-> err = "nil" /\ g.item # << >>, err |-> err]

Exists(db, key, t, io) ==
  LET g   == TxnGet(db, key, t)
      err == IF io THEN EIO ELSE g.err
      exists == err = "nil" /\ g.item # << >>
  IN  [exists |-> exists, err |-> IF err = "ErrKeyNotFound" THEN "nil" ELSE err]

\* a faulty Get: it reads the record without looking at its expiry
GetIgnoresExpiry(db, key, t, io) ==
  IF io THEN [value |-> "", err |-> EIO]
  ELSE IF key \in DOMAIN db THEN [value |-> db[key].value, err |-> "nil"]
  ELSE [value |-> "", err |-> "ErrKeyNotFound"]

Get(db, key, t, io) ==
  LET g   == TxnGet(db, key, t)
      err == IF io THEN EIO ELSE g.err
  IN  IF err # "nil" THEN [value |-> "", err |-> err]
      ELSE [value |-> g.item[1].value, err |-> "nil"]

\* time.Duration(expiryMinutes) * time.Minute
TTLDuration(expiryMinutes) == WrapDuration(expiryMinutes * Minute)

\* a faulty entry: the TTL branch is taken for expiryMinutes = 0 too
SetEntryOfAlwaysTTL(value, expiryMinutes, t) ==
  [value |-> value, expiresAt |-> WithTTL(t, TTLDuration(expiryMinutes))]

SetEntryOf(value, expiryMinutes, t) ==
  IF expiryMinutes = 0
    THEN [value |-> value, expiresAt |-> 0]
  ELSE [value |-> value, expiresAt |-> WithTTL(t, TTLDuration(expiryMinutes))]

\* a faulty Set: the write lands although the transaction reports a failure
SetWritesOnError(db, key, value, expiryMinutes, t, io) ==
  LET w == TxnSetEntry(db, key, SetEntryOf(value, expiryMinutes, t))
  IN  IF io THEN [err |-> EIO, db |-> w.db] ELSE w

\* a faulty Set: a key with a live record is refused
SetRefusesLive(db, key, value, expiryMinutes, t, io) ==
  IF io THEN [err |-> EIO, db |-> db]
  ELSE IF TxnGet(db, key, t).err = "nil" THEN [err |-> "ErrKeyExists", db |-> db]
  ELSE TxnSetEntry(db, key, SetEntryOf(value, expiryMinutes, t))

Set(db, key, value, expiryMinutes, t, io) ==
  IF io THEN [err |-> EIO, db |-> db]
  ELSE TxnSetEntry(db, key, SetEntryOf(value, expiryMinutes, t))

Delete(db, key, io) ==
  IF io THEN [err |-> EIO, db |-> db]
  ELSE TxnDelete(db, key)

(***************************************************************************)
(* Handlers.  A response records the code it is about (the path parameter, *)
(* or the short_code of a 201), the status, the Location of a redirect,    *)
(* the "error" of a 400 / 401 body (msg), the error that was logged (err), *)
(* what the handler did on the way: calls of the generator (gen) and the   *)
(* store transactions it issued (txns); and the header and form fields of  *)
(* the request it answers (req).                                           *)
(***************************************************************************)
NoRequest == [hdr |-> "", custom |-> << >>, url |-> "", expiry |-> << >>]

Response(kind, code, status, location, msg, err, g, txns) ==
  [kind |-> kind, code |-> code, status |-> status, location |-> location,
   msg |-> msg, err |-> err, gen |-> g, txns |-> txns, req |-> NoRequest]

NoResponse == Response("none", << >>, "", "", "", "nil", 0, << >>)

Idle == [pc |-> "idle", code |-> << >>, hdr |-> ""]

\* a faulty key check: every header passes
AuthorizedAlways(hdr, key) == TRUE

\* the X-API-KEY check of the POST and DELETE routes
Authorized(hdr, key) == hdr = key

Unauthorized(kind) ==
  Response(kind, << >>, "Unauthorized", "", "wrong api key", "nil", 0, << >>)

\* a faulty bound: `if exp < 0`
ExpiryRejectedBelowZero(exp) == exp < 0

\* `if exp < 1` of createHandler
ExpiryRejected(exp) == exp < 1

\* createHandler up to the generator: the parsed expiryMinutes, or the 400
ParseForm(url, expiry) ==
  IF url = "" THEN [ok |-> FALSE, expiryMinutes |-> 0, msg |-> "url is required"]
  ELSE IF expiry = << >> THEN [ok |-> TRUE, expiryMinutes |-> 0, msg |-> ""]
  ELSE LET a == Atoi(expiry)
       IN  IF ~a.ok
             THEN [ok |-> FALSE, expiryMinutes |-> 0, msg |-> "expiry must be a number"]
           ELSE IF ExpiryRejected(a.val)
             THEN [ok |-> FALSE, expiryMinutes |-> 0,
                   msg |-> "expiry must be greater than 0"]
           ELSE [ok |-> TRUE, expiryMinutes |-> a.val, msg |-> ""]

\* createHandler: the response, the store after it, and whether it panicked
createHandler(db, custom, url, expiry, shortCodeLength, t, rnd, io) ==
  LET f == ParseForm(url, expiry)
  IN  IF ~f.ok
        THEN [panic |-> FALSE, db |-> db, expiryMinutes |-> 0,
              resp |-> Response("POST", << >>, "BadRequest", "", f.msg, "nil", 0, << >>)]
      ELSE
        LET g    == IF custom = << >> THEN GenerateRandomString(shortCodeLength, rnd)
                    ELSE [pc |-> "done", ret |-> custom, err |-> FALSE]
            n    == IF custom = << >> THEN 1 ELSE 0
            code == g.ret
            s    == Set(db, code, url, f.expiryMinutes, t, io)
        IN  IF g.pc = "panic"
              THEN [panic |-> TRUE, db |-> db, expiryMinutes |-> 0, resp |-> NoResponse]
            ELSE IF g.err
              THEN [panic |-> FALSE, db |-> db, expiryMinutes |-> 0,
                    resp |-> Response("POST", << >>, "InternalServerError", "", "",
                                      "rand", n, << >>)]
            ELSE IF s.err # "nil"
              THEN [panic |-> FALSE, db |-> s.db, expiryMinutes |-> 0,
                    resp |-> Response("POST", << >>, "InternalServerError", "", "",
                                      s.err, n, << "Set" >>)]
            ELSE [panic |-> FALSE, db |-> s.db, expiryMinutes |-> f.expiryMinutes,
                  resp |-> Response("POST", code, "Created", "", "", "nil", n,
                                    << "Set" >>)]

\* redirectHandler up to `if !exists`: the response, or none when it goes on
redirectHandlerExists(db, code, t, io) ==
  LET e == Exists(db, code, t, io)
  IN  IF e.err # "nil"
        THEN << Response("GET", code, "InternalServerError", "", "", e.err, 0,
                         << "Exists" >>) >>
      ELSE IF ~e.exists
        THEN << Response("GET", code, "NotFound", "", "", "nil", 0, << "Exists" >>) >>
      ELSE << >>

\* a faulty second step: a missing key is answered 404
redirectHandlerGetAs404(db, code, t, io) ==
  LET g == Get(db, code, t, io)
  IN  IF g.err = "ErrKeyNotFound"
        THEN Response("GET", code, "NotFound", "", "", "nil", 0, << "Exists", "Get" >>)
      ELSE IF g.err # "nil"
        THEN Response("GET", code, "InternalServerError", "", "", g.err, 0,
                      << "Exists", "Get" >>)
      ELSE Response("GET", code, "Redirect", g.value, "", "nil", 0, << "Exists", "Get" >>)

\* redirectHandler from db.Get on
redirectHandlerGet(db, code, t, io) ==
  LET g == Get(db, code, t, io)
  IN  IF g.err # "nil"
        THEN Response("GET", code, "InternalServerError", "", "", g.err, 0,
                      << "Exists", "Get" >>)
      ELSE Response("GET", code, "Redirect", g.value, "", "nil", 0, << "Exists", "Get" >>)

\* deleteHandler up to `if !exists`
deleteHandlerExists(db, code, t, io) ==
  LET e == Exists(db, code, t, io)
  IN  IF e.err # "nil"
        THEN << Response("DELETE", code, "InternalServerError", "", "", e.err, 0,
                         << "Exists" >>) >>
      ELSE IF ~e.exists
        THEN << Response("DELETE", code, "NotFound", "", "", "nil", 0, << "Exists" >>) >>
      ELSE << >>

\* deleteHandler from db.Delete on: the response and the store after it
deleteHandlerDelete(db, code, io) ==
  LET d == Delete(db, code, io)
  IN  IF d.err # "nil"
        THEN [db |-> d.db,
              resp |-> Response("DELETE", code, "InternalServerError", "", "", d.err, 0,
                                << "Exists", "Delete" >>)]
      ELSE [db |-> d.db,
            resp |-> Response("DELETE", code, "NoContent", "", "", "nil", 0,
                              << "Exists", "Delete" >>)]

(***************************************************************************)
(* Inputs                                                                  *)
(***************************************************************************)
\* values of the SHORT_CODE_LENGTH environment variable (<< >> is unset)
LenEnvs == { << >>, << "x" >>, << "6" >>, << "0" >>, << "-", "1" >> }

\* values of API_KEY, and of the X-API-KEY header ("" is unset / absent)
ApiKeys == { "", "k1" }
Headers == { "", "k1" }

\* the form fields of POST /api/shorten
\* the custom code is one the generator can draw with the default length
Customs == { << >>, << "A", "A", "A", "A", "A", "A" >> }
Urls == { "", "u1", "u2" }
BadExpiryForms == { << "a" >>, << "-", "1" >>, << "0" >> }
GoodExpiryForms == { << >>, << "1" >>, << "2" >>, << "4" >> }

\* what rand.Int draws during one call in Spec: one symbol throughout, or an error
MainDraws == { 10, RandErr }
RandStreams == { [i \in 1..6 |-> d] : d \in MainDraws }

\* POST requests.  A form with an empty url or a bad expiry comes with one
\* random stream and a working engine, which it never gets to use; a request
\* with a wrong key carries one form, which is never read; a request without
\* a custom code carries the first url and no expiry.
PostRequests ==
  { q \in [hdr : Headers, custom : Customs, url : Urls,
           expiry : BadExpiryForms \cup GoodExpiryForms,
           rnd : RandStreams, io : BOOLEAN] :
      /\ (q.url = "" \/ q.expiry \in BadExpiryForms \/ q.custom # << >>)
            => q.rnd[1] = 10
      /\ (q.url = "" \/ q.expiry \in BadExpiryForms \/ q.rnd[1] = RandErr) => ~q.io
      /\ q.url = "" => (q.expiry \in { << >>, << "0" >> } /\ q.custom = << >>)
      /\ q.expiry \in BadExpiryForms => q.url # "u2"
      /\ q.custom = << >> => (q.url # "u2" /\ q.expiry \notin GoodExpiryForms \ { << >> })
      /\ q.hdr = "" => (q.custom = << >> /\ q.url = "u1" /\ q.expiry = << >>) }

\* the codes requests ask for
PathCodes == (Customs \ { << >> }) \cup DOMAIN last

Reqs == 1..MaxInFlight

\* a new request takes the lowest free slot
FreeSlot(r) ==
  /\ inflight[r].pc = "idle"
  /\ \A r2 \in Reqs : r2 < r => inflight[r2].pc # "idle"

(***************************************************************************)
(* main: the configuration                                                 *)
(***************************************************************************)
\* shortCode, err := strconv.Atoi(...); if err != nil { shortCode = 6 }
ShortCodeLength(env) == LET a == Atoi(env) IN IF a.ok THEN a.val ELSE 6

\* main once `defer db.Close()` is registered and app.Listen is serving
MainListen == [pc |-> "listen", closed |-> FALSE]

\* no KV method or handler has been called on its own yet
NoCall == [op |-> "none", key |-> << >>, io |-> FALSE, ok |-> FALSE, value |-> "",
           err |-> "nil", pre |-> << >>]

\* the value `last` holds for a code: at time `at` a 201 ("set") promised url
\* until `due` (0: for ever), replacing a promise of another url or not
\* (over); a 204 ("del") promised its absence, after another 204 or not (over)
Promise(op, url, at, due, over) ==
  [op |-> op, url |-> url, at |-> at, due |-> due, over |-> over]

\* the promise a 201 makes for `code`
Promised201(code, url, expiryMinutes) ==
  Promise("set", url, now,
          IF expiryMinutes = 0 THEN 0 ELSE now + expiryMinutes * Minute,
          code \in DOMAIN last /\ last[code].op = "set" /\ last[code].url # url)

Init ==
  /\ shortCode \in { ShortCodeLength(e) : e \in LenEnvs }
  /\ apiKey \in ApiKeys
  /\ store = << >>
  /\ now = Now0
  /\ inflight = [r \in Reqs |-> Idle]
  /\ resp = NoResponse
  /\ crashed = FALSE
  /\ last = << >>
  /\ gen = GenStart(0)
  /\ main = MainListen
  /\ call = NoCall

(***************************************************************************)
(* Actions.  A handler's step that answers leaves its response in resp,    *)
(* and SendResponse hands it to the client before the next step is taken:  *)
(* every response is seen in the state it was computed in.                 *)
(***************************************************************************)
Running == ~crashed /\ main.pc # "exited" /\ resp = NoResponse

\* app.Listen has not returned: new requests are taken
Accepting == main.pc = "listen"

\* GET /:shortcode, up to the Exists transaction
GetShortcode(r, code, io) ==
  /\ Running
  /\ Accepting
  /\ FreeSlot(r)
  /\ LET out == redirectHandlerExists(store, code, now, io)
     IN  IF out = << >>
           THEN /\ inflight' = [inflight EXCEPT ![r] = [pc |-> "get", code |-> code, hdr |-> ""]]
                /\ resp' = resp
         ELSE /\ resp' = out[1]
              /\ inflight' = inflight
  /\ UNCHANGED << shortCode, apiKey, store, now, crashed, last, gen, main, call >>

\* GET /:shortcode, the Get transaction and the redirect
RedirectGet(r, io) ==
  /\ Running
  /\ inflight[r].pc = "get"
  /\ resp' = redirectHandlerGet(store, inflight[r].code, now, io)
  /\ inflight' = [inflight EXCEPT ![r] = Idle]
  /\ UNCHANGED << shortCode, apiKey, store, now, crashed, last, gen, main, call >>

\* POST /api/shorten: the key check and createHandler
PostShorten(q) ==
  /\ Running
  /\ Accepting
  /\ LET rq == [hdr |-> q.hdr, custom |-> q.custom, url |-> q.url, expiry |-> q.expiry]
     IN  IF ~Authorized(q.hdr, apiKey)
           THEN /\ resp' = [Unauthorized("POST") EXCEPT !.req = rq]
                /\ UNCHANGED << store, crashed, last >>
         ELSE LET out == createHandler(store, q.custom, q.url, q.expiry, shortCode, now,
                                       q.rnd, q.io)
              IN  /\ crashed' = out.panic
                  /\ store' = out.db
                  /\ resp' = IF out.panic THEN resp ELSE [out.resp EXCEPT !.req = rq]
                  /\ last' = IF out.resp.status = "Created"
                               THEN Put(last, out.resp.code,
                                        Promised201(out.resp.code, q.url,
                                                    out.expiryMinutes))
                             ELSE last
  /\ UNCHANGED << shortCode, apiKey, now, inflight, gen, main, call >>

\* DELETE /api/shorten/:shortcode: the key check, up to the Exists transaction
DeleteShorten(r, hdr, code, io) ==
  /\ Running
  /\ Accepting
  /\ FreeSlot(r)
  /\ IF ~Authorized(hdr, apiKey)
       THEN /\ resp' = [Unauthorized("DELETE") EXCEPT !.req.hdr = hdr, !.code = code]
            /\ inflight' = inflight
     ELSE LET out == deleteHandlerExists(store, code, now, io)
          IN  IF out = << >>
                THEN /\ inflight' = [inflight EXCEPT ![r] = [pc |-> "delete", code |-> code, hdr |-> hdr]]
                     /\ resp' = resp
              ELSE /\ resp' = [out[1] EXCEPT !.req.hdr = hdr]
                   /\ inflight' = inflight
  /\ UNCHANGED << shortCode, apiKey, store, now, crashed, last, gen, main, call >>

\* DELETE /api/shorten/:shortcode: the Delete transaction and the 204
DeleteDelete(r, io) ==
  /\ Running
  /\ inflight[r].pc = "delete"
  /\ LET out == deleteHandlerDelete(store, inflight[r].code, io)
     IN  /\ store' = out.db
         /\ resp' = [out.resp EXCEPT !.req.hdr = inflight[r].hdr]
         /\ last' = IF out.resp.status = "NoContent"
                      THEN Put(last, inflight[r].code,
                               Promise("del", "", now, 0,
                                       inflight[r].code \in DOMAIN last
                                         /\ last[inflight[r].code].op = "del"))
                    ELSE last
  /\ inflight' = [inflight EXCEPT ![r] = Idle]
  /\ UNCHANGED << shortCode, apiKey, now, crashed, gen, main, call >>

\* a second passes
Tick ==
  /\ Running
  /\ now < MaxClock
  /\ now' = now + 1
  /\ UNCHANGED << shortCode, apiKey, store, inflight, resp, crashed, last, gen, main, call >>

\* badger reclaims an expired record (compaction)
EngineGC(key) ==
  /\ Running
  /\ key \in DOMAIN store
  /\ isDeletedOrExpired(store[key].expiresAt, now)
  /\ store' = [k \in DOMAIN store \ {key} |-> store[k]]
  /\ UNCHANGED << shortCode, apiKey, now, inflight, resp, crashed, last, gen, main, call >>

\* the response goes out
SendResponse ==
  /\ ~crashed
  /\ main.pc # "exited"
  /\ resp # NoResponse
  /\ resp' = NoResponse
  /\ UNCHANGED << shortCode, apiKey, store, now, inflight, crashed, last, gen, main, call >>

Next ==
  \/ \E r \in Reqs, code \in PathCodes, io \in BOOLEAN : GetShortcode(r, code, io)
  \/ \E r \in Reqs, io \in BOOLEAN : RedirectGet(r, io)
  \/ \E q \in PostRequests : PostShorten(q)
  \/ \E r \in Reqs, hdr \in Headers, code \in PathCodes, io \in BOOLEAN :
       DeleteShorten(r, hdr, code, io)
  \/ \E r \in Reqs, io \in BOOLEAN : DeleteDelete(r, io)
  \/ Tick
  \/ \E key \in DOMAIN store : EngineGC(key)
  \/ SendResponse

Spec == Init /\ [][Next]_vars

(***************************************************************************)
(* GenerateRandomString on its own, one pass of the loop at a time         *)
(***************************************************************************)
\* what rand.Int draws in SpecGen: the ends of the three runs of the
\* alphabet, or an error
GenDraws == { 0, 9, 10, 35, 36, 61, RandErr }

InitGen ==
  /\ shortCode = 6
  /\ apiKey = "k1"
  /\ store = << >>
  /\ now = Now0
  /\ inflight = [r \in Reqs |-> Idle]
  /\ resp = NoResponse
  /\ crashed = FALSE
  /\ last = << >>
  /\ gen \in { GenStart(n) : n \in (0 - 1)..MaxGenLen }
  /\ main = MainListen
  /\ call = NoCall

\* one pass of the loop body
GenSample(d) ==
  /\ gen.pc = "loop"
  /\ GenLoopCond(gen)
  /\ gen' = GenIter(gen, d)
  /\ UNCHANGED << shortCode, apiKey, store, now, inflight, resp, crashed, last, main, call >>

\* the loop condition fails: return string(ret), nil
GenReturn ==
  /\ gen.pc = "loop"
  /\ ~GenLoopCond(gen)
  /\ gen' = GenIter(gen, RandErr)
  /\ UNCHANGED << shortCode, apiKey, store, now, inflight, resp, crashed, last, main, call >>

NextGen ==
  \/ \E d \in GenDraws : GenSample(d)
  \/ GenReturn

SpecGen == InitGen /\ [][NextGen]_vars

(***************************************************************************)
(* Shutdown: main from app.Listen to the end of the process.  main ends    *)
(* in log.Fatal(app.Listen(...)); log.Fatal prints and calls os.Exit(1),   *)
(* which ends the process at once: deferred calls do not run, and the      *)
(* goroutines serving requests stop wherever they are.                     *)
(***************************************************************************)
InitShutdown ==
  /\ shortCode = ShortCodeLength(<< >>)
  /\ apiKey = "k1"
  /\ store = << >>
  /\ now = Now0
  /\ inflight = [r \in Reqs |-> Idle]
  /\ resp = NoResponse
  /\ crashed = FALSE
  /\ last = << >>
  /\ gen = GenStart(0)
  /\ main = MainListen
  /\ call = NoCall

\* app.Listen returns (the listener failed or was shut down): no request is
\* taken any more, the handlers already running go on
ListenReturns ==
  /\ ~crashed
  /\ main.pc = "listen"
  /\ main' = [main EXCEPT !.pc = "fatal"]
  /\ UNCHANGED << shortCode, apiKey, store, now, inflight, resp, crashed, last, gen, call >>

\* log.Fatal: os.Exit(1).  The deferred db.Close() is not run and nothing
\* waits for the requests in flight.
LogFatal ==
  /\ ~crashed
  /\ main.pc = "fatal"
  /\ main' = [main EXCEPT !.pc = "exited"]
  /\ UNCHANGED << shortCode, apiKey, store, now, inflight, resp, crashed, last, gen, call >>

NextShutdown ==
  \/ Next
  \/ ListenReturns
  \/ LogFatal

SpecShutdown == InitShutdown /\ [][NextShutdown]_vars

(***************************************************************************)
(* The KV methods and the handlers called one at a time, in any order, on  *)
(* a store of several keys.  A call leaves in `call` what it was given     *)
(* (op, key, io), what it returned (ok, value, err) and the store it found *)
(* (pre); KVReturn clears it before the next step.                         *)
(***************************************************************************)
\* the keys of SpecKV: two codes, and the empty string
KVKeys == { << >>, << "a" >>, << "b" >> }
KVValues == { "u1", "u2" }
KVMinutes == { 0, 1, 4 }
KVExpiryForms == { << >>, << "1" >>, << "4" >>, << "0" >> }

Call(op, key, io, ok, value, err, pre) ==
  [op |-> op, key |-> key, io |-> io, ok |-> ok, value |-> value, err |-> err,
   pre |-> pre]

InitKV ==
  /\ shortCode = ShortCodeLength(<< >>)
  /\ apiKey = "k1"
  /\ store = << >>
  /\ now = Now0
  /\ inflight = [r \in Reqs |-> Idle]
  /\ resp = NoResponse
  /\ crashed = FALSE
  /\ last = << >>
  /\ gen = GenStart(0)
  /\ main = MainListen
  /\ call = NoCall

KVExists(key, io) ==
  /\ call = NoCall
  /\ LET e == Exists(store, key, now, io)
     IN  call' = Call("Exists", key, io, e.exists, "", e.err, store)
  /\ UNCHANGED << shortCode, apiKey, store, now, inflight, resp, crashed, last, gen, main >>

KVGet(key, io) ==
  /\ call = NoCall
  /\ LET g == Get(store, key, now, io)
     IN  call' = Call("Get", key, io, g.err = "nil", g.value, g.err, store)
  /\ UNCHANGED << shortCode, apiKey, store, now, inflight, resp, crashed, last, gen, main >>

KVSet(key, value, expiryMinutes, io) ==
  /\ call = NoCall
  /\ LET w == Set(store, key, value, expiryMinutes, now, io)
     IN  /\ store' = w.db
         /\ call' = Call("Set", key, io, w.err = "nil", value, w.err, store)
  /\ UNCHANGED << shortCode, apiKey, now, inflight, resp, crashed, last, gen, main >>

KVDelete(key, io) ==
  /\ call = NoCall
  /\ LET d == Delete(store, key, io)
     IN  /\ store' = d.db
         /\ call' = Call("Delete", key, io, d.err = "nil", "", d.err, store)
  /\ UNCHANGED << shortCode, apiKey, now, inflight, resp, crashed, last, gen, main >>

\* redirectHandler, both steps with no other request in between
KVResolve(code, io) ==
  /\ call = NoCall
  /\ LET first == redirectHandlerExists(store, code, now, io)
         r     == IF first # << >> THEN first[1]
                  ELSE redirectHandlerGet(store, code, now, io)
     IN  call' = Call("Resolve", code, io, r.status = "Redirect", r.location, r.err, store)
  /\ UNCHANGED << shortCode, apiKey, store, now, inflight, resp, crashed, last, gen, main >>

\* createHandler with a custom code
KVCreate(custom, url, expiry, io) ==
  /\ call = NoCall
  /\ custom # << >>
  /\ LET out == createHandler(store, custom, url, expiry, shortCode, now,
                              [i \in 1..6 |-> 10], io)
     IN  /\ store' = out.db
         /\ call' = Call("Create", custom, io, out.resp.status = "Created", url,
                         out.resp.err, store)
  /\ UNCHANGED << shortCode, apiKey, now, inflight, resp, crashed, last, gen, main >>

\* deleteHandler, both steps with no other request in between
KVRemove(code, io) ==
  /\ call = NoCall
  /\ LET first == deleteHandlerExists(store, code, now, io)
         out   == IF first # << >> THEN [db |-> store, resp |-> first[1]]
                  ELSE deleteHandlerDelete(store, code, io)
     IN  /\ store' = out.db
         /\ call' = Call("Remove", code, io, out.resp.status = "NoContent", "",
                         out.resp.err, store)
  /\ UNCHANGED << shortCode, apiKey, now, inflight, resp, crashed, last, gen, main >>

KVReturn ==
  /\ call # NoCall
  /\ call' = NoCall
  /\ UNCHANGED << shortCode, apiKey, store, now, inflight, resp, crashed, last, gen, main >>

NextKV ==
  \/ \E key \in KVKeys, io \in BOOLEAN : KVExists(key, io)
  \/ \E key \in KVKeys, io \in BOOLEAN : KVGet(key, io)
  \/ \E key \in KVKeys, value \in KVValues, m \in KVMinutes, io \in BOOLEAN :
       KVSet(key, value, m, io)
  \/ \E key \in KVKeys, io \in BOOLEAN : KVDelete(key, io)
  \/ \E code \in KVKeys, io \in BOOLEAN : KVResolve(code, io)
  \/ \E custom \in KVKeys, url \in KVValues \cup { "" }, expiry \in KVExpiryForms,
        io \in BOOLEAN : KVCreate(custom, url, expiry, io)
  \/ \E code \in KVKeys, io \in BOOLEAN : KVRemove(code, io)
  \/ call = NoCall /\ Tick
  \/ \E key \in DOMAIN store : call = NoCall /\ EngineGC(key)
  \/ KVReturn

SpecKV == InitKV /\ [][NextKV]_vars

(***************************************************************************)
(* What the claims speak of                                                *)
(***************************************************************************)
\* the 62 characters 0-9A-Za-z
Alphabet62 ==
  { "0","1","2","3","4","5","6","7","8","9" } \cup
  { "A","B","C","D","E","F","G","H","I","J","K","L","M",
    "N","O","P","Q","R","S","T","U","V","W","X","Y","Z" } \cup
  { "a","b","c","d","e","f","g","h","i","j","k","l","m",
    "n","o","p","q","r","s","t","u","v","w","x","y","z" }

\* key has a record in db that has not expired at t
LiveIn(db, key, t) ==
  key \in DOMAIN db /\ (db[key].expiresAt = 0 \/ db[key].expiresAt > t)

\* what db holds for readers at t
LiveView(db, t) == [k \in { x \in DOMAIN db : LiveIn(db, x, t) } |-> db[k]]

\* the last successful request on code was a Create whose window is open at t
PromiseHolds(code, t) ==
  /\ code \in DOMAIN last
  /\ last[code].op = "set"
  /\ (last[code].due = 0 \/ t < last[code].due)

\* the last successful request on code was a Create whose window has closed
PromiseOver(code, t) ==
  /\ code \in DOMAIN last
  /\ last[code].op = "set"
  /\ last[code].due # 0
  /\ t >= last[code].due

\* the last successful request on code was a Remove
Removed(code) == code \in DOMAIN last /\ last[code].op = "del"

\* this step answers a request with a response of this kind
Answers(kind) == resp = NoResponse /\ resp'.kind = kind

\* C1: a Resolve of a code whose last successful request was a Create, run
\* inside that Create's expiry window and with a working engine, redirects
\* to the url of that Create.
C1_RoundTrip ==
  (resp.kind = "GET" /\ resp.err # EIO /\ PromiseHolds(resp.code, now))
    => (resp.status = "Redirect" /\ resp.location = last[resp.code].url)

\* C2: a Create with a custom code and a valid form succeeds whatever the
\* store holds for the code, and leaves the code mapped to its url; a Resolve
\* that redirects, redirects to the url of the last successful Create.
C2_LastWriteWins ==
  /\ (resp.kind = "POST" /\ resp.req.hdr = apiKey /\ resp.req.custom # << >>
        /\ resp.req.url # "" /\ resp.req.expiry \in GoodExpiryForms /\ resp.err = "nil")
       => (/\ resp.status = "Created"
           /\ resp.code = resp.req.custom
           /\ resp.code \in DOMAIN store
           /\ store[resp.code].value = resp.req.url)
  /\ (resp.kind = "GET" /\ resp.status = "Redirect")
       => (/\ resp.code \in DOMAIN last
           /\ last[resp.code].op = "set"
           /\ resp.location = last[resp.code].url)

C2_Witness ==
  /\ resp.kind = "GET"
  /\ resp.status = "Redirect"
  /\ resp.code \in DOMAIN last
  /\ last[resp.code].over
  /\ resp.location = "u2"

\* C3: a Resolve that starts when the last successful request on its code
\* was a Remove finds no record: it answers 404 at its Exists step (or 500
\* when the engine fails), and never goes on to Get.
C3_DeleteThenResolve ==
  [][ /\ \A r \in Reqs :
           (inflight[r].pc = "idle" /\ inflight'[r].pc = "get")
             => ~Removed(inflight'[r].code)
      /\ (Answers("GET") /\ inflight' = inflight /\ Removed(resp'.code)
            /\ resp'.err # EIO)
           => resp'.status = "NotFound" ]_vars

C3_Witness ==
  resp.kind = "GET" /\ resp.status = "NotFound" /\ Removed(resp.code)

\* C4: once the expiry window of the last Create on a code has closed, a
\* Resolve that meets no error answers 404.
C4_Expiry ==
  (resp.kind = "GET" /\ PromiseOver(resp.code, now) /\ resp.err = "nil")
    => resp.status = "NotFound"

\* C5: a Remove of a code with no live record answers 404 (500 only when the
\* engine fails), issues only the Exists transaction, never goes on to
\* Delete, and leaves the store as it was.
C5_RemoveAbsent ==
  [][ /\ (Answers("DELETE") /\ resp'.req.hdr = apiKey /\ inflight' = inflight
            /\ ~LiveIn(store, resp'.code, now) /\ resp'.err # EIO)
           => (/\ resp'.status = "NotFound"
               /\ resp'.txns = << "Exists" >>
               /\ store' = store)
      /\ \A r \in Reqs :
           (inflight[r].pc = "idle" /\ inflight'[r].pc = "delete")
             => LiveIn(store, inflight'[r].code, now) ]_vars

C5_Witness ==
  /\ resp.kind = "DELETE"
  /\ resp.status = "NotFound"
  /\ resp.txns = << "Exists" >>
  /\ ~LiveIn(store, resp.code, now)

\* C6: a Create with the right key and an empty url, or an expiry that is
\* not a number or is below 1, answers 400 without calling the generator,
\* without a store transaction and without changing the store.
C6_Validation ==
  [][ (Answers("POST") /\ resp'.req.hdr = apiKey
         /\ (resp'.req.url = "" \/ resp'.req.expiry \in BadExpiryForms))
        => (/\ resp'.status = "BadRequest"
            /\ resp'.gen = 0
            /\ resp'.txns = << >>
            /\ store' = store) ]_vars

C6_Witness ==
  /\ resp.kind = "POST"
  /\ resp.status = "BadRequest"
  /\ resp.req.url # ""
  /\ resp.req.expiry = << "0" >>
  /\ resp.txns = << >>

\* C7: a call with n >= 1 that meets no random-source error returns exactly
\* n characters of the alphabet after exactly n samples, and no call takes
\* more than n samples.
C7_GenerateLength ==
  /\ gen.samples <= (IF gen.n > 0 THEN gen.n ELSE 0)
  /\ (gen.pc = "done" /\ ~gen.err /\ gen.n >= 1)
       => (/\ Len(gen.ret) = gen.n
           /\ \A i \in 1..Len(gen.ret) : gen.ret[i] \in Alphabet62
           /\ gen.samples = gen.n)

C7_Witness ==
  /\ gen.pc = "done"
  /\ ~gen.err
  /\ gen.n >= 2
  /\ gen.ret[1] = "0"
  /\ gen.ret[gen.n] = "z"

\* C8: a Resolve of a code whose last successful request was a Create with
\* no expiry redirects to its url, however much time has passed.
C8_NoExpiry ==
  (resp.kind = "GET" /\ resp.err # EIO /\ resp.code \in DOMAIN last
     /\ last[resp.code].op = "set" /\ last[resp.code].due = 0)
    => (resp.status = "Redirect" /\ resp.location = last[resp.code].url)

C8_Witness ==
  /\ resp.kind = "GET"
  /\ resp.status = "Redirect"
  /\ resp.code \in DOMAIN last
  /\ last[resp.code].op = "set"
  /\ last[resp.code].due = 0
  /\ now >= last[resp.code].at + 2 * Minute

\* C9: a POST or DELETE whose X-API-KEY is not the configured key answers
\* 401 with no handler run: no generator call, no transaction, no request
\* left in flight, the store unchanged; and every step that changes what the
\* store holds answers a POST or DELETE that carried the configured key.
C9_Auth ==
  [][ /\ ((Answers("POST") \/ Answers("DELETE")) /\ resp'.req.hdr # apiKey)
           => (/\ resp'.status = "Unauthorized"
               /\ resp'.txns = << >>
               /\ resp'.gen = 0
               /\ store' = store
               /\ inflight' = inflight)
      /\ (LiveView(store', now) # LiveView(store, now))
           => (/\ resp'.kind \in { "POST", "DELETE" }
               /\ resp'.req.hdr = apiKey)
      /\ \A r \in Reqs :
           inflight'[r].pc = "delete" => inflight'[r].hdr = apiKey ]_vars

C9_Witness ==
  /\ resp.kind \in { "POST", "DELETE" }
  /\ resp.status = "Unauthorized"
  /\ resp.req.hdr # apiKey
  /\ store # << >>

\* C10: the length createHandler passes to the generator is at least 1, so
\* the generator never panics and a generated code is never empty.
C10_PositiveLength ==
  /\ ~crashed
  /\ (resp.kind = "POST" /\ resp.gen = 1) => shortCode >= 1

\* C11: a Resolve redirects only to the value of the record that is live for
\* its code at the instant of its Get transaction; a Resolve that reaches Get
\* when the code has no live record (removed or expired since its Exists)
\* answers 500 at that step and does not redirect.
C11_NoStaleRead ==
  /\ (resp.kind = "GET" /\ resp.status = "Redirect")
       => (/\ LiveIn(store, resp.code, now)
           /\ resp.location = store[resp.code].value)
  /\ (resp.kind = "GET" /\ resp.txns = << "Exists", "Get" >>
        /\ ~LiveIn(store, resp.code, now))
       => resp.status = "InternalServerError"

C11_Witness ==
  /\ resp.kind = "GET"
  /\ resp.status = "Redirect"
  /\ \E r \in Reqs : inflight[r].pc = "delete" /\ inflight[r].code = resp.code

\* C12: the Get step of a Resolve whose code has lost its live record since
\* the Exists step fails with key-not-found (or with the engine's own
\* failure), the Resolve answers 500 after exactly Exists and Get, and the
\* step leaves the store as it was.
C12_GetAfterRemoval ==
  [][ \A r \in Reqs :
        (inflight[r].pc = "get" /\ inflight'[r].pc = "idle"
           /\ ~LiveIn(store, inflight[r].code, now))
          => (/\ resp'.kind = "GET"
              /\ resp'.code = inflight[r].code
              /\ resp'.status = "InternalServerError"
              /\ resp'.err \in { "ErrKeyNotFound", EIO }
              /\ resp'.txns = << "Exists", "Get" >>
              /\ store' = store) ]_vars

C12_Witness ==
  /\ resp.kind = "GET"
  /\ resp.status = "InternalServerError"
  /\ resp.err = "ErrKeyNotFound"
  /\ resp.txns = << "Exists", "Get" >>
  /\ Removed(resp.code)

\* C13: once the process has ended after app.Listen returned, the store
\* handle has been closed and no request was left between two of its store
\* transactions.
C13_CloseOnShutdown ==
  main.pc = "exited"
    => (/\ main.closed
        /\ \A r \in Reqs : inflight[r].pc = "idle")

\* C14: a Create with an accepted expiry of m minutes stores the expiry
\* timestamp now + m minutes, which is later than the time of the write.
C14_ExpiryTimestamp ==
  (resp.kind = "POST" /\ resp.status = "Created" /\ resp.req.expiry # << >>)
    => (/\ resp.code \in DOMAIN store
        /\ store[resp.code].expiresAt = now + Atoi(resp.req.expiry).val * Minute
        /\ store[resp.code].expiresAt > now)

\* C15: a Create that answers 500 leaves the store as it was, carries no
\* short code, has called the generator at most once and Set at most once;
\* after a random-source failure it has issued no transaction at all.
C15_NoPartialWrite ==
  [][ (Answers("POST") /\ resp'.status = "InternalServerError")
        => (/\ store' = store
            /\ resp'.code = << >>
            /\ resp'.gen <= 1
            /\ resp'.err = "rand" => resp'.txns = << >>
            /\ resp'.err # "rand" => resp'.txns = << "Set" >>) ]_vars

C15_Witness ==
  /\ resp.kind = "POST"
  /\ resp.status = "InternalServerError"
  /\ resp.err = EIO
  /\ resp.req.custom \in DOMAIN store
  /\ store[resp.req.custom].value # resp.req.url

\* C16: an authorized Create without a custom code and with a valid form
\* that meets no random-source or engine failure calls the generator once,
\* issues the Set alone (no Exists), succeeds whether or not the generated
\* code has a live record, and leaves the code mapped to its url; a later
\* redirect of the code goes to the url of the last successful Create.
C16_CollisionBlind ==
  /\ (resp.kind = "POST" /\ resp.req.hdr = apiKey /\ resp.req.custom = << >>
        /\ resp.req.url # "" /\ resp.req.expiry \in GoodExpiryForms
        /\ resp.err \notin { EIO, "rand", "ErrEmptyKey" })
       => (/\ resp.status = "Created"
           /\ resp.gen = 1
           /\ resp.txns = << "Set" >>
           /\ resp.code \in DOMAIN store
           /\ store[resp.code].value = resp.req.url)
  /\ (resp.kind = "GET" /\ resp.status = "Redirect" /\ resp.code \in DOMAIN last
        /\ last[resp.code].op = "set")
       => resp.location = last[resp.code].url

C16_Witness ==
  /\ resp.kind = "POST"
  /\ resp.status = "Created"
  /\ resp.req.custom = << >>
  /\ last[resp.code].over
  /\ store[resp.code].value = resp.req.url

\* C18: a Remove that reaches its Delete step answers 204 unless the engine
\* fails, whether or not the code still had a record at that step, and the
\* code has no record in the state the Delete leaves.
C18_DeleteAbsent ==
  (resp.kind = "DELETE" /\ resp.txns = << "Exists", "Delete" >> /\ resp.err # EIO)
    => (/\ resp.status = "NoContent"
        /\ resp.code \notin DOMAIN store)

C18_Witness ==
  /\ resp.kind = "DELETE"
  /\ resp.status = "NoContent"
  /\ last[resp.code].op = "del"
  /\ last[resp.code].over

\* C19: when the last successful Create on a code replaced a Create of
\* another url, the expiry of the code is that of the last Create alone:
\* without an expiry a Resolve redirects to its url at any time; with an
\* expiry of m minutes a Resolve redirects to its url before m minutes have
\* passed since that Create and answers 404 from then on.
C19_ExpiryReplaced ==
  (resp.kind = "GET" /\ resp.err = "nil" /\ resp.code \in DOMAIN last
     /\ last[resp.code].op = "set" /\ last[resp.code].over)
    => IF last[resp.code].due = 0 \/ now < last[resp.code].due
         THEN resp.status = "Redirect" /\ resp.location = last[resp.code].url
       ELSE resp.status = "NotFound"

\* C17: Exists returns true exactly when the transaction does not fail and
\* the key has a live record; with a working engine and a non-empty key it
\* returns no error, also for a missing or expired key; any other failure
\* comes back as (false, error); and the store is as it was.
C17_ExistsContract ==
  call.op = "Exists"
    => (/\ call.ok <=> (~call.io /\ LiveIn(store, call.key, now))
        /\ call.err = (IF call.io THEN EIO
                       ELSE IF call.key = << >> THEN "ErrEmptyKey" ELSE "nil")
        /\ call.ok => call.err = "nil"
        /\ store = call.pre)

C17_Witness ==
  /\ call.op = "Exists"
  /\ ~call.ok
  /\ call.err = "nil"
  /\ call.key \in DOMAIN store

\* C20: Exists, Get and Resolve leave the store as they found it; Set,
\* Delete, Create and Remove on a code leave every other code with the
\* record (value and expiry) it had, or without one if it had none.
C20_Frame ==
  /\ call.op \in { "Exists", "Get", "Resolve" } => store = call.pre
  /\ call.op \in { "Set", "Delete", "Create", "Remove" }
       => (/\ DOMAIN store \ { call.key } = DOMAIN call.pre \ { call.key }
           /\ \A k \in DOMAIN store \ { call.key } : store[k] = call.pre[k])

C20_Witness ==
  /\ call.op \in { "Create", "Remove" }
  /\ call.ok
  /\ store # call.pre
  /\ \E k \in DOMAIN store : k # call.key /\ store[k].expiresAt # 0

====
